---------------------------- MODULE Spec2Model ----------------------------
(***************************************************************************)
(* Model of the swarm shooter's Application.js (scrolling variant,         *)
(* src/src/Application.js; src/unnamed/part_000 is the screen-fixed        *)
(* variant of the same file).                                              *)
(*                                                                         *)
(* Time and cooldowns are fixed-point numbers: Resolution steps make one   *)
(* unit, so the JavaScript statement spawnMax-- subtracts Resolution.      *)
(* Lengths are pixels.                                                     *)
(***************************************************************************)
EXTENDS Integers, Sequences, FiniteSets

VARIABLES
    config,        \* src.config, fixed at start-up
    score,         \* Application.score
    gameOver,      \* Application.gameOver
    elementLayerY, \* Application.elementLayer.style.y
    player,        \* Application.player
    bullets,       \* Application.bullets
    enemies,       \* Application.enemies
    inputLayer,    \* Application.inputLayer
    timers,        \* callbacks given to setTimeout and not yet run, oldest first
    fx,            \* what the session asked of its collaborators, and the calls of the last tick
    rate           \* two Bullets timers driven side by side (SpecRate only)

vars == << config, score, gameOver, elementLayerY, player, bullets, enemies,
           inputLayer, timers, fx, rate >>

gameVars == << config, score, gameOver, elementLayerY, player, bullets, enemies,
               inputLayer, timers, fx >>

-----------------------------------------------------------------------------
(* Bounds of the model *)

\* fixed-point steps per unit of time
Resolution == 2
\* slots of each entity pool
PoolCapacity == 2
\* reset callbacks that may be pending at once (the host stops starting
\* sessions while this many could become pending)
MaxTimers == 2
\* the effect counters of fx stop counting here
MaxCalls == 2
\* SpecRate: the longest constant step, and the number of double steps the
\* total time T is made of
MaxStep == 4
RateSteps == 4

\* frame times of the game loop, in steps
DtSet == {Resolution \div 2, Resolution}
\* gesture identifiers and gesture points delivered by the input collaborator
EvtIds == {1, 2}
Pts == {[x |-> 0, y |-> 0], [x |-> 288, y |-> 0]}
\* SpecInput: gesture points far outside the screen
WidePts == {[x |-> px, y |-> 0] : px \in {-1000, -100, 0, 100, 1000}}

Min2(a, b) == IF a <= b THEN a ELSE b
Max2(a, b) == IF a >= b THEN a ELSE b

NULL == [null |-> TRUE]

-----------------------------------------------------------------------------
(* Configuration *)

BG_WIDTH == 576
BG_HEIGHT == 1024

\* src.config: speeds are pixels per step, cooldowns are steps
EnemyType == [viewBounds |-> [x |-> -32, y |-> -32, w |-> 64, h |-> 64], vy |-> 256]

Config(cdMin, cdMax) ==
    [bgWidth  |-> BG_WIDTH,
     bgHeight |-> BG_HEIGHT,
     player   |-> [offsetX |-> 288, offsetY |-> 768, inputMoveMultiplier |-> 1,
                   viewBounds |-> [x |-> -32, y |-> -32, w |-> 64, h |-> 64], vy |-> 0],
     bullets  |-> [spawnCooldown |-> Resolution,
                   viewBounds |-> [x |-> -16, y |-> -16, w |-> 32, h |-> 32], vy |-> -192],
     enemies  |-> [spawnCooldownMin |-> cdMin, spawnCooldownMax |-> cdMax,
                   types |-> {EnemyType}]]

\* the configuration of the game loop's specification: bounds one and two units
DefaultConfig == Config(Resolution, 2 * Resolution)

\* utils.rollFloat(a, b) = a + random() * (b - a), on the fixed-point grid
rollFloat(a, b) == Min2(a, b) .. Max2(a, b)

\* utils.choose(list)
choose(S) == S

\* the values of rollFloat(0, BG_WIDTH) the model draws: the column the player starts in
SpawnXs == {288}

-----------------------------------------------------------------------------
(* The application's state as one record, so that a handler is a function  *)
(* from state to state and handlers compose in the order of the code.      *)

World == [score |-> score, gameOver |-> gameOver, elementLayerY |-> elementLayerY,
          player |-> player, bullets |-> bullets, enemies |-> enemies,
          inputLayer |-> inputLayer, timers |-> timers, fx |-> fx]

Becomes(w) ==
    /\ score' = w.score
    /\ gameOver' = w.gameOver
    /\ elementLayerY' = w.elementLayerY
    /\ player' = w.player
    /\ bullets' = w.bullets
    /\ enemies' = w.enemies
    /\ inputLayer' = w.inputLayer
    /\ timers' = w.timers
    /\ fx' = w.fx

Count(n) == IF n < MaxCalls THEN n + 1 ELSE n

-----------------------------------------------------------------------------
(* entities.Entity and entities.EntityPool (devkit modules, not among the  *)
(* repository's files): an entity is [x, y, cfg], a pool keeps its active  *)
(* entities in a list of at most PoolCapacity.                             *)

\* Entity.reset(x, y, config)
Entity_reset(e, x, y, cfg) == [e EXCEPT !.x = x, !.y = y, !.cfg = cfg]

\* Entity.update(dt): the position integrator
Entity_update(e, dt) == [e EXCEPT !.y = @ + e.cfg.vy * dt]

\* EntityPool.obtain(x, y, config): a saturated pool drops the request
EntityPool_obtain(pool, x, y, cfg) ==
    IF Len(pool.ents) < PoolCapacity
    THEN [pool EXCEPT !.ents = Append(@, [x |-> x, y |-> y, cfg |-> cfg])]
    ELSE pool

\* Entity.release(), for the i-th active entity of its pool
EntityPool_release(pool, i) ==
    [pool EXCEPT !.ents = SubSeq(@, 1, i - 1) \o SubSeq(@, i + 1, Len(@))]

\* EntityPool.reset()
EntityPool_reset(pool) == [pool EXCEPT !.ents = << >>]

\* EntityPool.update(dt): every active entity is updated once, in list order;
\* updated[i] is [ent, released], the i-th entity after its own update
EntityPool_update(pool, updated) ==
    LET kept == SelectSeq(updated, LAMBDA u : ~u.released)
    IN  [pool EXCEPT !.ents = [i \in 1 .. Len(kept) |-> kept[i].ent]]

\* the collision test of two entities: their boxes (position + viewBounds)
\* overlap, edges included
Collides(a, b) ==
    /\ a.x + a.cfg.viewBounds.x <= b.x + b.cfg.viewBounds.x + b.cfg.viewBounds.w
    /\ b.x + b.cfg.viewBounds.x <= a.x + a.cfg.viewBounds.x + a.cfg.viewBounds.w
    /\ a.y + a.cfg.viewBounds.y <= b.y + b.cfg.viewBounds.y + b.cfg.viewBounds.h
    /\ b.y + b.cfg.viewBounds.y <= a.y + a.cfg.viewBounds.y + a.cfg.viewBounds.h

\* effects.emitExplosion(particles, entity): kind is "player" or "enemy"
emitExplosion(w, kind) ==
    IF kind = "player"
    THEN [w EXCEPT !.fx.playerExplosions = Count(@), !.fx.frame = Append(@, kind)]
    ELSE [w EXCEPT !.fx.frame = Append(@, kind)]

\* setTimeout(bind(app, 'reset'), 2500): one more pending callback; the tag
\* says whether it was scheduled in the running session or an earlier one
setTimeout(w) ==
    [w EXCEPT !.timers = Append(@, [fn |-> "reset", session |-> "current"]),
              !.fx.resetsScheduled = Count(@)]

-----------------------------------------------------------------------------
(* Player *)

Player_reset(w) ==
    [w EXCEPT !.player =
        [Entity_reset(@, config.player.offsetX, config.player.offsetY, config.player)
            EXCEPT !.visible = TRUE]]

Player_startInput(w) == [w EXCEPT !.player.inputStartX = w.player.x]

\* mutant: updateInput without the upper clamp
M_Player_updateInput_noMin(w, dx, dy) ==
    LET dx1 == dx * config.player.inputMoveMultiplier
    IN  [w EXCEPT !.player.x = Max2(0, w.player.inputStartX + dx1)]

Player_updateInput(w, dx, dy) ==
    LET dx1 == dx * config.player.inputMoveMultiplier
    IN  [w EXCEPT !.player.x = Max2(0, Min2(BG_WIDTH, w.player.inputStartX + dx1))]

Player_onDeath(w) ==
    [w EXCEPT !.player.visible = FALSE, !.fx.onDeathCalls = Count(@)]

Player_getScreenY(p) == p.y - config.player.offsetY

\* Player.update is Entity.update
Player_update(w, dt) == [w EXCEPT !.player = Entity_update(@, dt)]

-----------------------------------------------------------------------------
(* Bullets *)

SPAWN_COOLDOWN == config.bullets.spawnCooldown

\* mutant: Bullet.update that also releases a bullet standing on the edge
M_Bullet_update_atEdge(e, w, dt) ==
    LET m == Entity_update(e, dt)
        b == m.cfg.viewBounds
    IN  [ent |-> m, released |-> m.y + b.y + b.h <= Player_getScreenY(w.player)]

\* Bullet.update(dt): [ent, released]
Bullet_update(e, w, dt) ==
    LET m == Entity_update(e, dt)
        b == m.cfg.viewBounds
    IN  [ent |-> m, released |-> m.y + b.y + b.h < Player_getScreenY(w.player)]

Bullets_reset(w) ==
    [w EXCEPT !.bullets =
        EntityPool_reset([@ EXCEPT !.spawnCooldown = SPAWN_COOLDOWN])]

\* mutant: spawnBullet without its gameOver test
M_Bullets_spawnBullet_unguarded(w) ==
    [w EXCEPT !.bullets =
        EntityPool_obtain(@, w.player.x, w.player.y, config.bullets)]

Bullets_spawnBullet(w) ==
    IF w.gameOver
    THEN w
    ELSE [w EXCEPT !.bullets =
            EntityPool_obtain(@, w.player.x, w.player.y, config.bullets)]

\* mutant: the timer is re-armed only when a bullet was obtained
M_Bullets_timer_rearmOnSpawn(w, dt) ==
    LET w1 == [w EXCEPT !.bullets.spawnCooldown = @ - dt]
        w2 == Bullets_spawnBullet(w1)
    IN  IF w1.bullets.spawnCooldown <= 0 /\ w2.bullets.ents /= w1.bullets.ents
        THEN [w2 EXCEPT !.bullets.spawnCooldown = @ + SPAWN_COOLDOWN]
        ELSE w1

\* Bullets.update(dt) up to the call of the pool's own update: the spawn timer
Bullets_timer(w, dt) ==
    LET w1 == [w EXCEPT !.bullets.spawnCooldown = @ - dt]
    IN  IF w1.bullets.spawnCooldown <= 0
        THEN [Bullets_spawnBullet(w1) EXCEPT
                !.bullets.spawnCooldown = @ + SPAWN_COOLDOWN]
        ELSE w1

\* mutant: a pool iteration that steps over the entity that follows one
\* which released itself
M_Bullets_update_skipsSibling(w, dt) ==
    LET w1 == Bullets_timer(w, dt)
        own(i) == Bullet_update(w1.bullets.ents[i], w1, dt)
    IN  [w1 EXCEPT !.bullets =
            EntityPool_update(@,
                [i \in 1 .. Len(w1.bullets.ents) |->
                    IF i > 1 /\ own(i - 1).released
                    THEN [ent |-> w1.bullets.ents[i], released |-> FALSE]
                    ELSE own(i)])]

Bullets_update(w, dt) ==
    LET w1 == Bullets_timer(w, dt)
    IN  [w1 EXCEPT !.bullets =
            EntityPool_update(@,
                [i \in 1 .. Len(w1.bullets.ents) |->
                    Bullet_update(w1.bullets.ents[i], w1, dt)])]

-----------------------------------------------------------------------------
(* Enemies *)

\* Enemy.update(dt): [ent, released]
Enemy_update(e, w, dt) ==
    LET m == Entity_update(e, dt)
        b == m.cfg.viewBounds
    IN  [ent |-> m, released |-> m.y + b.y > Player_getScreenY(w.player) + BG_HEIGHT]

Enemies_reset(w) ==
    [w EXCEPT !.enemies =
        EntityPool_reset([@ EXCEPT !.spawnCooldown = 0,
                                   !.spawnMin = config.enemies.spawnCooldownMin,
                                   !.spawnMax = config.enemies.spawnCooldownMax])]

\* the difficulty ramp of spawnEnemy: spawnMax-- while it exceeds spawnMin
Enemies_ramp(e) ==
    IF e.spawnMax > e.spawnMin
    THEN [e EXCEPT !.spawnMax = @ - Resolution]
    ELSE e

\* spawnEnemy(); rnd.type is choose(types), rnd.x is rollFloat(0, BG_WIDTH)
Enemies_spawnEnemy(w, rnd) ==
    LET e == Enemies_ramp(w.enemies)
        b == rnd.type.viewBounds
        y == -(b.y + b.h) + Player_getScreenY(w.player)
    IN  [w EXCEPT !.enemies = EntityPool_obtain(e, rnd.x, y, rnd.type)]

\* the values rollFloat(spawnMin, spawnMax) can take in the next update
Enemies_rolls(w) ==
    LET e == Enemies_ramp(w.enemies)
    IN  rollFloat(e.spawnMin, e.spawnMax)

\* Enemies.update(dt) up to the call of the pool's own update: the spawn
\* timer; rnd.roll is rollFloat(spawnMin, spawnMax)
Enemies_timer(w, dt, rnd) ==
    LET w1 == [w EXCEPT !.enemies.spawnCooldown = @ - dt]
    IN  IF w1.enemies.spawnCooldown <= 0
        THEN [Enemies_spawnEnemy(w1, rnd) EXCEPT
                !.enemies.spawnCooldown = @ + rnd.roll]
        ELSE w1

Enemies_update(w, dt, rnd) ==
    LET w1 == Enemies_timer(w, dt, rnd)
    IN  [w1 EXCEPT !.enemies =
            EntityPool_update(@,
                [i \in 1 .. Len(w1.enemies.ents) |->
                    Enemy_update(w1.enemies.ents[i], w1, dt)])]

-----------------------------------------------------------------------------
(* InputView *)

\* app.bgLayer.style.scale: the layer is built without a scale
bgLayerScale == 1

InputView_reset(w) == [w EXCEPT !.inputLayer = [startEvt |-> NULL, startPt |-> NULL]]

\* mutant: onInputStart without its test for a gesture in progress
M_InputView_onInputStart_always(w, evt, pt) ==
    [Player_startInput(w) EXCEPT !.inputLayer = [startEvt |-> evt, startPt |-> pt]]

InputView_onInputStart(w, evt, pt) ==
    IF w.inputLayer.startEvt = NULL
    THEN [Player_startInput(w) EXCEPT !.inputLayer = [startEvt |-> evt, startPt |-> pt]]
    ELSE w

\* mutant: onInputMove without the comparison of the event ids
M_InputView_onInputMove_anyId(w, evt, pt) ==
    LET startEvt == w.inputLayer.startEvt
    IN  IF startEvt = NULL
        THEN w
        ELSE LET startPt == w.inputLayer.startPt
                 dx == (pt.x - startPt.x) \div bgLayerScale
                 dy == (pt.y - startPt.y) \div bgLayerScale
             IN  Player_updateInput(w, dx, dy)

InputView_onInputMove(w, evt, pt) ==
    LET startEvt == w.inputLayer.startEvt
    IN  IF startEvt = NULL \/ evt.id /= startEvt.id
        THEN w
        ELSE LET startPt == w.inputLayer.startPt
                 dx == (pt.x - startPt.x) \div bgLayerScale
                 dy == (pt.y - startPt.y) \div bgLayerScale
             IN  Player_updateInput(w, dx, dy)

InputView_onInputSelect(w, evt, pt) ==
    LET startEvt == w.inputLayer.startEvt
    IN  IF startEvt = NULL \/ evt.id /= startEvt.id
        THEN w
        ELSE InputView_reset(w)

-----------------------------------------------------------------------------
(* Application *)

\* mutant: reset() without bullets.reset()
M_App_reset_keepsBullets(w) ==
    LET w1 == [w EXCEPT !.score = 0, !.gameOver = FALSE, !.elementLayerY = 0]
        w2 == InputView_reset(Enemies_reset(Player_reset(w1)))
    IN  [w2 EXCEPT !.fx = [onDeathCalls |-> 0, playerExplosions |-> 0,
                           resetsScheduled |-> 0, gameOverCalls |-> 0,
                           frame |-> << >>, steps |-> << >>]]

\* mutant: reset() without inputLayer.reset()
M_App_reset_keepsGesture(w) ==
    LET w1 == [w EXCEPT !.score = 0, !.gameOver = FALSE, !.elementLayerY = 0]
        w2 == Enemies_reset(Bullets_reset(Player_reset(w1)))
    IN  [w2 EXCEPT !.fx = [onDeathCalls |-> 0, playerExplosions |-> 0,
                           resetsScheduled |-> 0, gameOverCalls |-> 0,
                           frame |-> << >>, steps |-> << >>]]

\* mutant: reset() that leaves elementLayer.style.y as it is
M_App_reset_keepsOffset(w) ==
    LET w1 == [w EXCEPT !.score = 0, !.gameOver = FALSE]
        w2 == InputView_reset(Enemies_reset(Bullets_reset(Player_reset(w1))))
    IN  [w2 EXCEPT !.fx = [onDeathCalls |-> 0, playerExplosions |-> 0,
                           resetsScheduled |-> 0, gameOverCalls |-> 0,
                           frame |-> << >>, steps |-> << >>]]

\* reset(); killAllParticles leaves no request of the past session
App_reset(w) ==
    LET w1 == [w EXCEPT !.score = 0, !.gameOver = FALSE, !.elementLayerY = 0]
        w2 == InputView_reset(Enemies_reset(Bullets_reset(Player_reset(w1))))
    IN  [w2 EXCEPT !.fx = [onDeathCalls |-> 0, playerExplosions |-> 0,
                           resetsScheduled |-> 0, gameOverCalls |-> 0,
                           frame |-> << >>, steps |-> << >>]]

\* mutant: onBulletHit that counts the enemy destroyed
M_App_onBulletHit_scores(w, i, j) ==
    LET w1 == emitExplosion(w, "enemy")
    IN  [w1 EXCEPT !.enemies = EntityPool_release(@, j),
                   !.bullets = EntityPool_release(@, i),
                   !.score = @ + 1]

\* mutant: onBulletHit without bullet.release()
M_App_onBulletHit_keepsBullet(w, i, j) ==
    LET w1 == emitExplosion(w, "enemy")
    IN  [w1 EXCEPT !.enemies = EntityPool_release(@, j)]

\* onBulletHit(bullet, enemy) for the i-th bullet and the j-th enemy
App_onBulletHit(w, i, j) ==
    LET w1 == emitExplosion(w, "enemy")
    IN  [w1 EXCEPT !.enemies = EntityPool_release(@, j),
                   !.bullets = EntityPool_release(@, i)]

\* mutant: onGameOver without its gameOver test
M_App_onGameOver_unguarded(w) ==
    LET w0 == [w EXCEPT !.fx.gameOverCalls = Count(@)]
    IN  setTimeout([emitExplosion(Player_onDeath(w0), "player")
                        EXCEPT !.gameOver = TRUE])

\* mutant: onGameOver that schedules no reset
M_App_onGameOver_noTimer(w) ==
    LET w0 == [w EXCEPT !.fx.gameOverCalls = Count(@)]
    IN  IF ~w0.gameOver
        THEN [emitExplosion(Player_onDeath(w0), "player") EXCEPT !.gameOver = TRUE]
        ELSE w0

App_onGameOver(w) ==
    LET w0 == [w EXCEPT !.fx.gameOverCalls = Count(@)]
    IN  IF ~w0.gameOver
        THEN setTimeout([emitExplosion(Player_onDeath(w0), "player")
                            EXCEPT !.gameOver = TRUE])
        ELSE w0

\* bullets.onFirstPoolCollisions(enemies, onBulletHit): the first overlapping
\* pair, bullets in the outer loop
onFirstPoolCollisions(w) ==
    LET hits == {p \in (1 .. Len(w.bullets.ents)) \X (1 .. Len(w.enemies.ents)) :
                    Collides(w.bullets.ents[p[1]], w.enemies.ents[p[2]])}
    IN  IF hits = {}
        THEN w
        ELSE LET first == CHOOSE p \in hits : \A q \in hits :
                              p[1] < q[1] \/ (p[1] = q[1] /\ p[2] <= q[2])
             IN  App_onBulletHit(w, first[1], first[2])

\* enemies.onFirstCollision(player, onGameOver)
onFirstCollision(w) ==
    IF \E j \in 1 .. Len(w.enemies.ents) : Collides(w.enemies.ents[j], w.player)
    THEN App_onGameOver(w)
    ELSE w

\* the calls tick makes, in the order it makes them
Did(w, call) == [w EXCEPT !.fx.steps = Append(@, call)]

\* mutant: tick(dt) that scans bullets against enemies a second time
M_App_tick_scansTwice(w, dt, rnd) ==
    LET w0 == [w EXCEPT !.fx.frame = << >>, !.fx.steps = << >>]
        w1 == Did(Player_update(w0, dt), "player.update")
        w2 == Did(Bullets_update(w1, dt), "bullets.update")
        w3 == Did(Enemies_update(w2, dt, rnd), "enemies.update")
        screenOffsetY == -Player_getScreenY(w3.player)
        w4 == Did([w3 EXCEPT !.elementLayerY = screenOffsetY], "elementLayer.style.y")
        w5 == Did(w4, "parallax.update")
        w6 == Did(onFirstPoolCollisions(onFirstPoolCollisions(w5)),
                  "bullets.onFirstPoolCollisions")
        w7 == Did(onFirstCollision(w6), "enemies.onFirstCollision")
    IN  Did(w7, "particles.runTick")

\* mutant: tick(dt) that sets the view offset right after the player's
\* update, before the pools' updates
M_App_tick_scrollFirst(w, dt, rnd) ==
    LET w0 == [w EXCEPT !.fx.frame = << >>, !.fx.steps = << >>]
        w1 == Did(Player_update(w0, dt), "player.update")
        screenOffsetY == -Player_getScreenY(w1.player)
        w2 == Did([w1 EXCEPT !.elementLayerY = screenOffsetY], "elementLayer.style.y")
        w3 == Did(w2, "parallax.update")
        w4 == Did(Bullets_update(w3, dt), "bullets.update")
        w5 == Did(Enemies_update(w4, dt, rnd), "enemies.update")
        w6 == Did(onFirstPoolCollisions(w5), "bullets.onFirstPoolCollisions")
        w7 == Did(onFirstCollision(w6), "enemies.onFirstCollision")
    IN  Did(w7, "particles.runTick")

\* tick(dt); the requests of the frame go to particles.runTick
App_tick(w, dt, rnd) ==
    LET w0 == [w EXCEPT !.fx.frame = << >>, !.fx.steps = << >>]
        w1 == Did(Player_update(w0, dt), "player.update")
        w2 == Did(Bullets_update(w1, dt), "bullets.update")
        w3 == Did(Enemies_update(w2, dt, rnd), "enemies.update")
        screenOffsetY == -Player_getScreenY(w3.player)
        w4 == Did([w3 EXCEPT !.elementLayerY = screenOffsetY], "elementLayer.style.y")
        w5 == Did(w4, "parallax.update")
        w6 == Did(onFirstPoolCollisions(w5), "bullets.onFirstPoolCollisions")
        w7 == Did(onFirstCollision(w6), "enemies.onFirstCollision")
    IN  Did(w7, "particles.runTick")

-----------------------------------------------------------------------------
(* The program as a state machine *)

\* the objects as initUI builds them
Constructed ==
    [score |-> 0, gameOver |-> FALSE, elementLayerY |-> 0,
     player |-> [x |-> 0, y |-> 0, cfg |-> config.player, inputStartX |-> 0,
                 visible |-> TRUE],
     bullets |-> [spawnCooldown |-> 0, ents |-> << >>],
     enemies |-> [spawnCooldown |-> 0, spawnMin |-> 0, spawnMax |-> 0, ents |-> << >>],
     inputLayer |-> [startEvt |-> NULL, startPt |-> NULL],
     timers |-> << >>,
     fx |-> [onDeathCalls |-> 0, playerExplosions |-> 0, resetsScheduled |-> 0,
             gameOverCalls |-> 0, frame |-> << >>, steps |-> << >>]]

\* the state launchUI leaves: initUI, then reset()
Launched(w) ==
    /\ score = w.score
    /\ gameOver = w.gameOver
    /\ elementLayerY = w.elementLayerY
    /\ player = w.player
    /\ bullets = w.bullets
    /\ enemies = w.enemies
    /\ inputLayer = w.inputLayer
    /\ timers = w.timers
    /\ fx = w.fx

RateIdle == [d |-> 0, tA |-> 0, cdA |-> 0, firedA |-> 0, tB |-> 0, cdB |-> 0, firedB |-> 0]

Init ==
    /\ config = DefaultConfig
    /\ Launched(App_reset(Constructed))
    /\ rate = RateIdle

\* a reset starts a new session: the callbacks still pending belong to an
\* earlier one
Aged(w) ==
    [w EXCEPT !.timers = [i \in 1 .. Len(@) |-> [@[i] EXCEPT !.session = "earlier"]]]

\* devkit calls tick(dt) for a frame
Tick ==
    /\ \E dt \in DtSet, type \in choose(config.enemies.types), x \in SpawnXs,
          roll \in Enemies_rolls(World) :
            Becomes(App_tick(World, dt, [type |-> type, x |-> x, roll |-> roll]))
    /\ UNCHANGED << config, rate >>

\* the host calls reset()
HostReset ==
    /\ Len(timers) < MaxTimers
    /\ Becomes(Aged(App_reset(World)))
    /\ UNCHANGED << config, rate >>

\* the oldest pending setTimeout callback runs: bind(app, 'reset')
TimerFire ==
    /\ timers /= << >>
    /\ Becomes(Aged(App_reset([World EXCEPT !.timers = Tail(@)])))
    /\ UNCHANGED << config, rate >>

OnInputStart(pts) ==
    /\ \E id \in EvtIds, pt \in pts :
            Becomes(InputView_onInputStart(World, [id |-> id], pt))
    /\ UNCHANGED << config, rate >>

OnInputMove(pts) ==
    /\ \E id \in EvtIds, pt \in pts :
            Becomes(InputView_onInputMove(World, [id |-> id], pt))
    /\ UNCHANGED << config, rate >>

OnInputSelect(pts) ==
    /\ \E id \in EvtIds, pt \in pts :
            Becomes(InputView_onInputSelect(World, [id |-> id], pt))
    /\ UNCHANGED << config, rate >>

Next ==
    \/ Tick
    \/ HostReset
    \/ TimerFire
    \/ OnInputStart(Pts)
    \/ OnInputMove(Pts)
    \/ OnInputSelect(Pts)

Spec == Init /\ [][Next]_vars

-----------------------------------------------------------------------------
(* The game under other configurations and inputs *)

\* configurations whose cooldown bounds lie up to MaxGap steps apart, the
\* half units between whole ones included
MaxGap == 3

InitRamp ==
    /\ config \in {Config(2 * Resolution, 2 * Resolution + gap) : gap \in 0 .. MaxGap}
    /\ Launched(App_reset(Constructed))
    /\ rate = RateIdle

NextRamp ==
    \/ Tick
    \/ HostReset
    \/ TimerFire

\* the game loop without gestures, for every configured pair of bounds
SpecRamp == InitRamp /\ [][NextRamp]_vars

NextInput ==
    \/ OnInputStart(WidePts)
    \/ OnInputMove(WidePts)
    \/ OnInputSelect(WidePts)
    \/ HostReset

\* gestures whose points lie far outside the screen, and resets
SpecInput == Init /\ [][NextInput]_vars

-----------------------------------------------------------------------------
(* Bullets' spawn timer driven by constant steps: run A by steps of d, run *)
(* B by steps of 2 * d, both from reset, with the game on and a free slot. *)

\* the total time both runs cover
RateTotal(d) == 2 * d * RateSteps

\* a session just reset whose bullet timer stands at cd
RateWorld(cd) == [App_reset(World) EXCEPT !.bullets.spawnCooldown = cd]

\* bullets one Bullets.update(dt) fires when the timer stands at cd
Fired(cd, dt) == Len(Bullets_timer(RateWorld(cd), dt).bullets.ents)

\* the timer after that update
Rearmed(cd, dt) == Bullets_timer(RateWorld(cd), dt).bullets.spawnCooldown

InitRate ==
    /\ config = DefaultConfig
    /\ Launched(App_reset(Constructed))
    /\ \E d \in 1 .. MaxStep :
        rate = [d |-> d,
                tA |-> 0, cdA |-> App_reset(Constructed).bullets.spawnCooldown,
                firedA |-> 0,
                tB |-> 0, cdB |-> App_reset(Constructed).bullets.spawnCooldown,
                firedB |-> 0]

RateTickA ==
    /\ rate.tA < RateTotal(rate.d)
    /\ rate' = [rate EXCEPT !.tA = @ + rate.d,
                            !.cdA = Rearmed(rate.cdA, rate.d),
                            !.firedA = @ + Fired(rate.cdA, rate.d)]
    /\ UNCHANGED gameVars

RateTickB ==
    /\ rate.tB < RateTotal(rate.d)
    /\ rate' = [rate EXCEPT !.tB = @ + 2 * rate.d,
                            !.cdB = Rearmed(rate.cdB, 2 * rate.d),
                            !.firedB = @ + Fired(rate.cdB, 2 * rate.d)]
    /\ UNCHANGED gameVars

NextRate ==
    \/ RateTickA
    \/ RateTickB

SpecRate == InitRate /\ [][NextRate]_vars

\* a configuration whose bullets are tall enough to overlap the enemies of
\* two rows
HitsConfig ==
    [DefaultConfig EXCEPT
        !.bullets.viewBounds = [x |-> -16, y |-> -128, w |-> 32, h |-> 256]]

\* the values of rollFloat(0, BG_WIDTH) SpecHits draws: two columns the
\* player can fire in
HitsXs == {0, 288}

InitHits ==
    /\ config = HitsConfig
    /\ Launched(App_reset(Constructed))
    /\ rate = RateIdle

\* devkit calls tick(dt) for a frame, enemies spawning in either column
TickHits ==
    /\ \E dt \in DtSet, type \in choose(config.enemies.types), x \in HitsXs,
          roll \in Enemies_rolls(World) :
            Becomes(App_tick(World, dt, [type |-> type, x |-> x, roll |-> roll]))
    /\ UNCHANGED << config, rate >>

NextHits ==
    \/ TickHits
    \/ HostReset
    \/ TimerFire
    \/ OnInputStart(Pts)
    \/ OnInputMove(Pts)
    \/ OnInputSelect(Pts)

\* the game with tall bullets and enemies in two columns
SpecHits == InitHits /\ [][NextHits]_vars

\* SpecScroll: the steps of climbing after which the model stops the frames
\* of a session
MaxScroll == 4

\* a configuration whose player climbs, so that the view scrolls; its
\* offsetY lets a bullet's lower edge come to stand exactly on the top of
\* the view
ScrollConfig == [DefaultConfig EXCEPT !.player.vy = -64, !.player.offsetY = 752]

InitScroll ==
    /\ config = ScrollConfig
    /\ Launched(App_reset(Constructed))
    /\ rate = RateIdle

\* devkit calls tick(dt) for a frame, while the player has not climbed
\* MaxScroll steps
TickScroll ==
    /\ Player_getScreenY(player) > MaxScroll * config.player.vy
    /\ Tick

NextScroll ==
    \/ TickScroll
    \/ HostReset
    \/ TimerFire
    \/ OnInputStart(Pts)
    \/ OnInputMove(Pts)
    \/ OnInputSelect(Pts)

\* the game with a climbing player
SpecScroll == InitScroll /\ [][NextScroll]_vars

\* the timer callback is eventually run
LiveSpec == Spec /\ WF_vars(TimerFire)

-----------------------------------------------------------------------------
(* Claims *)

\* what a state looks like to the game, the count of onGameOver calls aside
Observed(w) == [w EXCEPT !.fx.gameOverCalls = 0]

\* C1: onGameOver is idempotent within a session.  While gameOver is true
\* and the scheduled reset has not fired, exactly one reset timer has been
\* scheduled in the session, player.onDeath and the player's explosion have
\* each happened exactly once, and one more call of onGameOver changes
\* nothing.
C1_GameOverIdempotent ==
    gameOver =>
        /\ fx.onDeathCalls = 1
        /\ fx.playerExplosions = 1
        /\ fx.resetsScheduled = 1
        /\ Observed(App_onGameOver(World)) = Observed(World)

\* C1 witness: onGameOver has been called at least twice in one session and
\* the session's reset is still pending.
C1_Witness ==
    /\ gameOver
    /\ fx.gameOverCalls >= 2
    /\ \E i \in 1 .. Len(timers) : timers[i].session = "current"

\* C2 (as claimed): at most one scheduled reset is pending at any time, and
\* no reset scheduled in an earlier session is left pending to reset the
\* running one.
C2_OnePendingReset ==
    /\ Len(timers) <= 1
    /\ \A i \in 1 .. Len(timers) : timers[i].session = "current"

\* C3: whatever the state before, the state right after Application.reset()
\* (called by the host or by the timer) has score 0, gameOver false, no
\* active bullet and no active enemy.
C3_ResetClears ==
    [][(HostReset \/ TimerFire) =>
            /\ score' = 0
            /\ gameOver' = FALSE
            /\ Len(bullets'.ents) = 0
            /\ Len(enemies'.ents) = 0]_vars

\* C3 witness: a state reset() can be called in, with the game over, bullets
\* and enemies active and a gesture in progress.
C3_Witness ==
    /\ gameOver
    /\ Len(bullets.ents) > 0
    /\ Len(enemies.ents) > 0
    /\ inputLayer.startEvt /= NULL
    /\ Len(timers) < MaxTimers

\* C4: gameOver becomes true at most once in a session (no onDeath has
\* happened yet in the session when it does), it becomes false again only
\* by reset(), called by the host or by the timer, and once it is true a
\* reset follows, given that the timer callback is eventually run.
C4_GameOverThenReset ==
    /\ [][(~gameOver /\ gameOver') =>
            (fx.onDeathCalls = 0 /\ fx'.onDeathCalls = 1)]_vars
    /\ [][(gameOver /\ ~gameOver') => (HostReset \/ TimerFire)]_vars
    /\ (gameOver ~> ~gameOver)

\* C4 witness: the game is over and the reset of this session is the next
\* callback to run.
C4_Witness ==
    /\ gameOver
    /\ Len(timers) = 1
    /\ timers[1].session = "current"

\* the random draws of one Enemies.update in state w
Draws(w) ==
    {[type |-> type, x |-> x, roll |-> roll] :
        type \in choose(config.enemies.types), x \in SpawnXs,
        roll \in Enemies_rolls(w)}

Saturated(pool) == Len(pool.ents) = PoolCapacity

\* C5: neither pool ever holds more active entities than its capacity; when
\* a spawn falls due in a tick and the pool is saturated, the active
\* entities are left as they are (none added, none overwritten), the spawn
\* timer is re-armed all the same and the tick runs to its end.
C5_PoolSaturation ==
    /\ Len(bullets.ents) <= PoolCapacity
    /\ Len(enemies.ents) <= PoolCapacity
    /\ \A dt \in DtSet, rnd \in Draws(World) :
        LET b == Bullets_timer(World, dt)
            e == Enemies_timer(World, dt, rnd)
            t == App_tick(World, dt, rnd)
        IN  /\ (Saturated(bullets) /\ bullets.spawnCooldown - dt <= 0) =>
                /\ b.bullets.ents = bullets.ents
                /\ b.bullets.spawnCooldown =
                        bullets.spawnCooldown - dt + SPAWN_COOLDOWN
                /\ t.bullets.spawnCooldown = b.bullets.spawnCooldown
            /\ (Saturated(enemies) /\ enemies.spawnCooldown - dt <= 0) =>
                /\ e.enemies.ents = enemies.ents
                /\ e.enemies.spawnCooldown =
                        enemies.spawnCooldown - dt + rnd.roll
                /\ t.enemies.spawnCooldown = e.enemies.spawnCooldown

\* C5 witness: both pools are saturated, the game is on and both spawn
\* timers run out in the next tick.
C5_Witness ==
    /\ ~gameOver
    /\ Saturated(bullets)
    /\ Saturated(enemies)
    /\ \A dt \in DtSet : bullets.spawnCooldown - dt <= 0
    /\ \A dt \in DtSet : enemies.spawnCooldown - dt <= 0

\* C6 (as claimed): for any configured spawnCooldownMin <= spawnCooldownMax
\* the ramp never takes spawnMax below spawnMin.
C6_SpawnMaxAboveMin == enemies.spawnMax >= enemies.spawnMin

\* cooldown periods that elapse when the timer stands at cd and dt passes:
\* the largest k with cd - dt <= -(k - 1) * SPAWN_COOLDOWN
Periods(cd, dt) == IF cd - dt > 0 THEN 0 ELSE ((dt - cd) \div SPAWN_COOLDOWN) + 1

\* C7 (as claimed): a Bullets.update(dt) in which k >= 2 cooldown periods
\* elapse fires k bullets and returns with spawnCooldown strictly positive.
C7_CatchesUp ==
    [][/\ (rate'.tA /= rate.tA /\ Periods(rate.cdA, rate.d) >= 2) =>
            /\ rate'.firedA - rate.firedA = Periods(rate.cdA, rate.d)
            /\ rate'.cdA > 0
       /\ (rate'.tB /= rate.tB /\ Periods(rate.cdB, 2 * rate.d) >= 2) =>
            /\ rate'.firedB - rate.firedB = Periods(rate.cdB, 2 * rate.d)
            /\ rate'.cdB > 0]_vars

Abs(n) == IF n < 0 THEN -n ELSE n

\* C8 (as claimed): over the same total time T the run by steps of d and
\* the run by steps of 2 * d fire the same number of bullets, within one,
\* and that number is T divided by the cooldown, within one.
C8_FrameRateIndependent ==
    (rate.d > 0 /\ rate.tA = RateTotal(rate.d) /\ rate.tB = RateTotal(rate.d)) =>
        /\ Abs(rate.firedA - rate.firedB) <= 1
        /\ Abs(rate.firedA * SPAWN_COOLDOWN - RateTotal(rate.d)) <= SPAWN_COOLDOWN
        /\ Abs(rate.firedB * SPAWN_COOLDOWN - RateTotal(rate.d)) <= SPAWN_COOLDOWN

\* C9: while gameOver is true no bullet is activated: after any step taken
\* with the game over, every active bullet is one that was active before,
\* moved by the frame's dt or not at all.
C9_NoFireWhenGameOver ==
    [][gameOver =>
        \A i \in 1 .. Len(bullets'.ents) :
            \E j \in 1 .. Len(bullets.ents), dt \in DtSet \cup {0} :
                bullets'.ents[i] = Entity_update(bullets.ents[j], dt)]_vars

\* C9 witness: the game has been over for at least one tick, the bullet
\* pool has a free slot and the bullet timer runs out in the next tick.
C9_Witness ==
    /\ gameOver
    /\ fx.gameOverCalls >= 2
    /\ ~Saturated(bullets)
    /\ \A dt \in DtSet : bullets.spawnCooldown - dt <= 0

\* C10: whatever gestures arrive, the player's x stays within [0, BG_WIDTH];
\* a move of dx = 1000 from the anchor 288 puts the player at 576.
C10_PlayerXClamped ==
    /\ 0 <= player.x
    /\ player.x <= BG_WIDTH
    /\ (inputLayer.startEvt /= NULL /\ player.inputStartX = 288) =>
        \A pt \in WidePts :
            pt.x - inputLayer.startPt.x = 1000 =>
                InputView_onInputMove(World, inputLayer.startEvt, pt).player.x = 576

\* C10 witness: a gesture that started at point 0 with the player at 288 has
\* moved the player to 576; the only point that far to the right is 1000.
C10_Witness ==
    /\ inputLayer.startEvt /= NULL
    /\ inputLayer.startPt.x = 0
    /\ player.inputStartX = 288
    /\ player.x = 576

\* the bullet x enemy pairs of w whose boxes overlap
HitPairs(w) ==
    {p \in (1 .. Len(w.bullets.ents)) \X (1 .. Len(w.enemies.ents)) :
        Collides(w.bullets.ents[p[1]], w.enemies.ents[p[2]])}

\* the random draws of one Enemies.update in state w, in either column
HitsDraws(w) ==
    {[type |-> type, x |-> x, roll |-> roll] :
        type \in choose(config.enemies.types), x \in HitsXs,
        roll \in Enemies_rolls(w)}

\* the explosions requested at enemies in a frame: one per call of onBulletHit
EnemyExplosions(frame) == Len(SelectSeq(frame, LAMBDA kind : kind = "enemy"))

C12_StaleEventsIgnored ==
    \A id \in EvtIds, pt \in WidePts :
        (inputLayer.startEvt = NULL \/ id /= inputLayer.startEvt.id) =>
            /\ InputView_onInputMove(World, [id |-> id], pt) = World
            /\ InputView_onInputSelect(World, [id |-> id], pt) = World

\* C12 witness: a gesture is in progress and has moved the player to the
\* right edge, so that a move event of another gesture would show.
C12_Witness ==
    /\ inputLayer.startEvt /= NULL
    /\ player.x = BG_WIDTH
    /\ player.inputStartX < BG_WIDTH

\* the step ends the gesture in progress: reset(), or a gesture-end event
\* that carries the id of the gesture
EndsGesture ==
    \/ HostReset
    \/ \E pt \in WidePts : Becomes(InputView_onInputSelect(World, inputLayer.startEvt, pt))

\* C13: Player.startInput takes effect once per accepted gesture.  While a
\* gesture is in progress a gesture-start event changes nothing, the anchor,
\* startEvt and startPt keep the values the first gesture-start captured, and
\* the gesture ends only by a gesture-end event of the same id or by reset;
\* a gesture-start is accepted only when no gesture is in progress, and it
\* captures the player's x as the anchor.
C13_OneStartPerGesture ==
    /\ [][inputLayer.startEvt /= NULL =>
            /\ player'.inputStartX = player.inputStartX
            /\ inputLayer' = inputLayer \/ (inputLayer'.startEvt = NULL /\ EndsGesture)
            /\ \A id \in EvtIds, pt \in WidePts :
                    InputView_onInputStart(World, [id |-> id], pt) = World]_vars
    /\ [][(inputLayer.startEvt = NULL /\ inputLayer'.startEvt /= NULL) =>
            player'.inputStartX = player.x]_vars
    /\ [][player'.inputStartX /= player.inputStartX =>
            (inputLayer.startEvt = NULL /\ inputLayer'.startEvt /= NULL)]_vars

\* C13 witness: a gesture that started at point 100 is in progress and has
\* moved the player away from the anchor, so that a second gesture-start
\* would capture another anchor and another point.
C13_Witness ==
    /\ inputLayer.startEvt /= NULL
    /\ inputLayer.startPt.x = 100
    /\ player.x /= player.inputStartX

\* the entities of a list after one update(dt) of each, those that released
\* themselves (out(e) after their own move) left out
OnceEach(ents, dt, out(_)) ==
    SelectSeq([i \in 1 .. Len(ents) |-> Entity_update(ents[i], dt)],
              LAMBDA e : ~out(e))

BulletOut(e) == e.y + e.cfg.viewBounds.y + e.cfg.viewBounds.h < Player_getScreenY(player)
EnemyOut(e) == e.y + e.cfg.viewBounds.y > Player_getScreenY(player) + BG_HEIGHT

CodeOrder ==
    << "player.update", "bullets.update", "enemies.update",
       "elementLayer.style.y", "parallax.update",
       "bullets.onFirstPoolCollisions", "enemies.onFirstCollision",
       "particles.runTick" >>

\* the order of a tick's calls as claimed
ClaimedOrder ==
    << "player.update", "elementLayer.style.y", "parallax.update",
       "bullets.update", "enemies.update",
       "bullets.onFirstPoolCollisions", "enemies.onFirstCollision",
       "particles.runTick" >>

C16_OffsetFollowsPlayer ==
    /\ elementLayerY = -Player_getScreenY(player)
    /\ elementLayerY = -(player.y - config.player.offsetY)

\* C16 witness: the view has scrolled and, since the last tick, a gesture
\* has moved the player sideways.
C16_Witness ==
    /\ elementLayerY > 0
    /\ inputLayer.startEvt /= NULL
    /\ player.x /= player.inputStartX

\* the state in which a tick scans bullets against enemies: the three
\* updates and the view offset done
BeforeScan(w, dt, rnd) ==
    LET w1 == Enemies_update(Bullets_update(Player_update(w, dt), dt), dt, rnd)
    IN  [w1 EXCEPT !.elementLayerY = -Player_getScreenY(w1.player)]

\* the list without its k-th element
Without(list, k) ==
    [n \in 1 .. Len(list) - 1 |-> IF n < k THEN list[n] ELSE list[n + 1]]

\* C17: when the hit handler runs for an overlapping bullet and enemy, both
\* are inactive afterwards: the bullets are those of before less that
\* bullet, the enemies those of before less that enemy (each count one
\* less), one explosion is requested for the enemy, and nothing else
\* changes: no other entity, not the score, not gameOver.
C17_HitReleasesPair ==
    \A dt \in DtSet, rnd \in HitsDraws(World) :
        LET m == BeforeScan(World, dt, rnd)
        IN  \A p \in HitPairs(m) :
                LET h == App_onBulletHit(m, p[1], p[2])
                IN  /\ Len(h.bullets.ents) = Len(m.bullets.ents) - 1
                    /\ Len(h.enemies.ents) = Len(m.enemies.ents) - 1
                    /\ h.bullets.ents = Without(m.bullets.ents, p[1])
                    /\ h.enemies.ents = Without(m.enemies.ents, p[2])
                    /\ h.fx.frame = Append(m.fx.frame, "enemy")
                    /\ h.score = m.score
                    /\ h.gameOver = m.gameOver
                    /\ [h EXCEPT !.bullets.ents = m.bullets.ents,
                                 !.enemies.ents = m.enemies.ents,
                                 !.fx.frame = m.fx.frame] = m

\* C17 witness: the next tick scans two bullets and two enemies, and the
\* second bullet of the list overlaps an enemy.
C17_Witness ==
    \E dt \in DtSet, rnd \in HitsDraws(World) :
        LET m == BeforeScan(World, dt, rnd)
        IN  /\ Len(m.bullets.ents) = 2
            /\ Len(m.enemies.ents) = 2
            /\ \E p \in HitPairs(m) : p[1] = 2

\* the lower edge of a bullet's box
LowerEdge(e) == e.y + e.cfg.viewBounds.y + e.cfg.viewBounds.h

Elements(list) == {list[n] : n \in 1 .. Len(list)}

\* C18: a bullet whose box lies entirely above the top of the view after
\* its own update (y + viewBounds.y + viewBounds.h < player.getScreenY())
\* is released in that tick, and a bullet whose lower edge is exactly on
\* the top of the view stays active: after Bullets.update the active
\* bullets are those whose lower edge is not above the top, and no state
\* holds an active bullet above it.
C18_BulletsLeaveAbove ==
    /\ \A i \in 1 .. Len(bullets.ents) :
            LowerEdge(bullets.ents[i]) >= Player_getScreenY(player)
    /\ \A dt \in DtSet :
        LET p == Player_update(World, dt)
            before == Bullets_timer(p, dt).bullets.ents
            after == Elements(Bullets_update(p, dt).bullets.ents)
            top == Player_getScreenY(p.player)
        IN  \A i \in 1 .. Len(before) :
                LET e == Entity_update(before[i], dt)
                IN  /\ LowerEdge(e) < top => e \notin after
                    /\ LowerEdge(e) = top => e \in after
                    /\ LowerEdge(e) > top => e \in after

\* C18 witness: the view has scrolled and an active bullet's lower edge is
\* exactly on the top of the view.
C18_Witness ==
    /\ elementLayerY > 0
    /\ \E i \in 1 .. Len(bullets.ents) :
            LowerEdge(bullets.ents[i]) = Player_getScreenY(player)

\* C19: the score is 0 in every reachable state: reset sets it to 0 and
\* neither tick, the hit handler, the game-over handler nor an input event
\* changes it, so destroying enemies does not raise it.
C19_ScoreStaysZero == score = 0

\* C19 witness: the last tick destroyed an enemy, and the game has gone
\* over in this session.
C19_Witness ==
    /\ EnemyExplosions(fx.frame) >= 1
    /\ gameOver
    /\ fx.onDeathCalls = 1

\* C20: reset() ends the gesture in progress: right after it no gesture is
\* active and the player is at the reset position, and move and end events
\* of whatever id change nothing; while no gesture is active only reset()
\* changes the player's x; and the gesture-start that comes next captures
\* the x the player then has as the anchor, without moving the player.
C20_ResetEndsGesture ==
    /\ [][(HostReset \/ TimerFire) =>
            /\ inputLayer'.startEvt = NULL
            /\ inputLayer'.startPt = NULL
            /\ player'.x = config.player.offsetX
            /\ \A id \in EvtIds, pt \in Pts :
                /\ InputView_onInputMove(World', [id |-> id], pt) = World'
                /\ InputView_onInputSelect(World', [id |-> id], pt) = World']_vars
    /\ [][inputLayer.startEvt = NULL =>
            (player'.x = player.x \/ HostReset \/ TimerFire)]_vars
    /\ [][(inputLayer.startEvt = NULL /\ inputLayer'.startEvt /= NULL) =>
            (player'.inputStartX = player.x /\ player'.x = player.x)]_vars

\* C20 witness: a gesture is in progress and has moved the player away from
\* the reset position, and the reset scheduled in this session is the next
\* callback to run.
C20_Witness ==
    /\ inputLayer.startEvt /= NULL
    /\ player.x /= config.player.offsetX
    /\ timers /= << >>
    /\ timers[1].session = "current"

=============================================================================
